---- MODULE Spec2Model ----
(***************************************************************************)
(* Super Notation v1.0: the signing protocol of sn_signing.py and the      *)
(* line parser of sn_parser.py.                                             *)
(*                                                                         *)
(* File contents and strings are sequences of elements.  An element is one *)
(* character, written as a one-character string, with two exceptions that  *)
(* stand for a fixed run of bytes: BOM (the bytes EF BB BF, the character   *)
(* U+FEFF once decoded) and a digest (the 71 characters "SHA256-<HEX>").    *)
(***************************************************************************)
EXTENDS Integers, Sequences, FiniteSets, TLC

VARIABLES
    file,          \* the bytes of the .sn file on disk
    hist,          \* the calls that touched the file so far, oldest first
    last,          \* the most recent call and what it returned
    mode,          \* SNParser.mode
    lines,         \* SNTokenizer.lines
    current_line,  \* SNTokenizer.current_line (0-based, as in the source)
    pc,            \* where parse() is
    metadata,      \* doc.metadata
    nodes,         \* doc.nodes
    is_closed,     \* doc.is_closed
    signature,     \* doc.signature
    acc,           \* the local list of the running _parse_list / _parse_code_block
    error,         \* the ValueError parse() raised, if any
    inline,        \* _format_inline: its argument, its local result, the pass reached
    call           \* the sign or verify call under way: its locals between two reads

vars == <<file, hist, last, mode, lines, current_line, pc, metadata, nodes,
          is_closed, signature, acc, error, inline, call>>

parserVars == <<mode, lines, current_line, pc, metadata, nodes, is_closed,
                signature, acc, error>>

(***************************************************************************)
(* Bounds of the model.                                                    *)
(***************************************************************************)
MaxChunks == 2
MaxOps == 3
MaxBody == 2
MaxResaves == 1
MaxSegs == 3
MaxRaceOps == 1
MaxTailEdits == 1

(***************************************************************************)
(* Characters.                                                             *)
(***************************************************************************)
LF == "\n"
CR == "\r"
BOM == "^BOM"

\* The characters bytes.strip() and str.strip() remove (the model's alphabet
\* holds no whitespace outside ASCII).
WS == {" ", "\t", "\n", "\r", "\f"}

Min(S) == CHOOSE x \in S : \A y \in S : x <= y
Max(S) == CHOOSE x \in S : \A y \in S : x >= y

LowerMap ==
    [c \in {"A","B","C","D","E","F","G","H","I","J","K","L","M","N","O","P",
            "Q","R","S","T","U","V","W","X","Y","Z"} |->
        CASE c = "A" -> "a" [] c = "B" -> "b" [] c = "C" -> "c" [] c = "D" -> "d"
          [] c = "E" -> "e" [] c = "F" -> "f" [] c = "G" -> "g" [] c = "H" -> "h"
          [] c = "I" -> "i" [] c = "J" -> "j" [] c = "K" -> "k" [] c = "L" -> "l"
          [] c = "M" -> "m" [] c = "N" -> "n" [] c = "O" -> "o" [] c = "P" -> "p"
          [] c = "Q" -> "q" [] c = "R" -> "r" [] c = "S" -> "s" [] c = "T" -> "t"
          [] c = "U" -> "u" [] c = "V" -> "v" [] c = "W" -> "w" [] c = "X" -> "x"
          [] c = "Y" -> "y" [] c = "Z" -> "z"]

\* bytes.lower() / str.lower()
lower(s) == [i \in 1..Len(s) |-> IF s[i] \in DOMAIN LowerMap THEN LowerMap[s[i]] ELSE s[i]]

\* bytes.lstrip() / str.lstrip()
lstrip(s) ==
    LET n == Len(s)
        k == CHOOSE i \in 1..(n + 1) :
                 /\ \A j \in 1..(i - 1) : s[j] \in WS
                 /\ (i = n + 1 \/ s[i] \notin WS)
    IN  SubSeq(s, k, n)

rstrip(s) ==
    LET n == Len(s)
        k == CHOOSE i \in 0..n :
                 /\ \A j \in (i + 1)..n : s[j] \in WS
                 /\ (i = 0 \/ s[i] \notin WS)
    IN  SubSeq(s, 1, k)

\* bytes.strip() / str.strip()
strip(s) == rstrip(lstrip(s))

\* bytes.startswith() / str.startswith()
startswith(s, p) == Len(s) >= Len(p) /\ SubSeq(s, 1, Len(p)) = p

\* bytes.split(sep) / str.split(sep) for a one-character separator
RECURSIVE split(_, _)
split(s, sep) ==
    LET idx == {i \in 1..Len(s) : s[i] = sep}
    IN  IF idx = {} THEN <<s>>
        ELSE LET k == Min(idx)
             IN  <<SubSeq(s, 1, k - 1)>> \o split(SubSeq(s, k + 1, Len(s)), sep)

\* sep.join(parts)
RECURSIVE join(_, _)
join(parts, sep) ==
    IF parts = <<>> THEN <<>>
    ELSE IF Len(parts) = 1 THEN parts[1]
    ELSE parts[1] \o <<sep>> \o join(Tail(parts), sep)

\* bytes.replace(old, new): left to right, non-overlapping
RECURSIVE replace(_, _, _)
replace(s, old, new) ==
    LET hits == {i \in 1..(Len(s) - Len(old) + 1) : SubSeq(s, i, i + Len(old) - 1) = old}
    IN  IF hits = {} THEN s
        ELSE LET k == Min(hits)
             IN  SubSeq(s, 1, k - 1) \o new
                 \o replace(SubSeq(s, k + Len(old), Len(s)), old, new)

\* open(filepath, 'r', encoding='utf-8').read(): universal newlines turn
\* "\r\n" and "\r" into "\n"; the utf-8 codec keeps a leading U+FEFF.
read_text(bytes) == replace(replace(bytes, <<CR, LF>>, <<LF>>), <<CR>>, <<LF>>)

K_sign == <<"s", "i", "g", "n", ":">>
K_close == <<"c", "l", "o", "s", "e", ":">>

(***************************************************************************)
(* sn_signing.py                                                           *)
(***************************************************************************)

\* hashlib.sha256(canonical).hexdigest().upper() behind the "SHA256-" prefix:
\* one element, an injective function of the bytes hashed (the alphabet of
\* the model has none of "^", "[" and "]").
RECURSIVE Str(_)
Str(s) ==
    IF s = <<>> THEN ""
    ELSE IF Len(s) = 1 THEN s[1]
    ELSE Str(SubSeq(s, 1, Len(s) \div 2)) \o Str(SubSeq(s, Len(s) \div 2 + 1, Len(s)))

Digest(bytes) == "SHA256-[" \o Str(bytes) \o "]"

strip_bom(content) ==
    IF startswith(content, <<BOM>>) THEN SubSeq(content, 2, Len(content)) ELSE content

\* the normalisation of line endings without the second replace: a lone CR
\* stays
normalize_newlines_crlf(content) == replace(content, <<CR, LF>>, <<LF>>)

normalize_newlines(content) ==
    replace(replace(content, <<CR, LF>>, <<LF>>), <<CR>>, <<LF>>)

\* canonical_bytes with the slice lines[:i - 1] in place of lines[:i]
canonical_bytes_short(content) ==
    LET c == normalize_newlines(strip_bom(content))
        ls == split(c, LF)
        hits == {i \in 1..Len(ls) : startswith(lower(lstrip(ls[i])), K_sign)}
    IN  IF hits # {} THEN join(SubSeq(ls, 1, Min(hits) - 2), LF) ELSE c

\* canonical_bytes that leaves out the sign: line alone and keeps what
\* follows it
canonical_bytes_uncut(content) ==
    LET c == normalize_newlines(strip_bom(content))
        ls == split(c, LF)
        hits == {i \in 1..Len(ls) : startswith(lower(lstrip(ls[i])), K_sign)}
    IN  IF hits # {}
        THEN join(SubSeq(ls, 1, Min(hits) - 1) \o SubSeq(ls, Min(hits) + 1, Len(ls)), LF)
        ELSE c

canonical_bytes(content) ==
    LET c == normalize_newlines(strip_bom(content))
        ls == split(c, LF)
        hits == {i \in 1..Len(ls) : startswith(lower(lstrip(ls[i])), K_sign)}
    IN  IF hits # {} THEN join(SubSeq(ls, 1, Min(hits) - 1), LF) ELSE c

\* Optional[str]: [some |-> FALSE] is None
None == [some |-> FALSE, val |-> <<>>]
Some(v) == [some |-> TRUE, val |-> v]

\* extract_signature without the .strip() of the value after the colon
extract_signature_raw(content) ==
    LET c == normalize_newlines(strip_bom(content))
        ls == split(c, LF)
        hits == {i \in 1..Len(ls) : startswith(lower(strip(ls[i])), K_sign)}
    IN  IF hits = {} THEN None
        ELSE LET sig_line == strip(ls[Min(hits)])
                 colon == Min({j \in 1..Len(sig_line) : sig_line[j] = ":"})
             IN  Some(SubSeq(sig_line, colon + 1, Len(sig_line)))

extract_signature(content) ==
    LET c == normalize_newlines(strip_bom(content))
        ls == split(c, LF)
        hits == {i \in 1..Len(ls) :
                    /\ startswith(lower(strip(ls[i])), K_sign)
                    /\ ":" \in {strip(ls[i])[j] : j \in 1..Len(strip(ls[i]))}}
    IN  IF hits = {} THEN None
        ELSE LET sig_line == strip(ls[Min(hits)])
                 colon == Min({j \in 1..Len(sig_line) : sig_line[j] = ":"})
             IN  Some(strip(SubSeq(sig_line, colon + 1, Len(sig_line))))

has_close_marker(content) ==
    LET ls == split(read_text(content), LF)
    IN  \E i \in 1..Len(ls) : lower(strip(ls[i])) = K_close

compute_signature(content) == <<Digest(canonical_bytes(content))>>

verify_signature(content) ==
    LET existing_sig == extract_signature(content)
        expected_sig == compute_signature(content)
    IN  IF ~existing_sig.some
        THEN [valid |-> FALSE, kind |-> "nosig", expected |-> <<>>, found |-> <<>>]
        ELSE IF existing_sig.val = expected_sig
        THEN [valid |-> TRUE,
              kind |-> IF has_close_marker(content) THEN "sealed" ELSE "unsealed",
              expected |-> expected_sig, found |-> <<>>]
        ELSE [valid |-> FALSE, kind |-> "mismatch",
              expected |-> expected_sig, found |-> existing_sig.val]

\* the test of sign_file's and unsign_file's filter loop
is_sign_or_close(line) ==
    LET stripped == lower(strip(line))
    IN  startswith(stripped, K_sign) \/ stripped = K_close

keep_line(line) == ~is_sign_or_close(line)

\* while filtered_lines and filtered_lines[-1].strip() == '': pop()
pop_trailing_blank(ls) ==
    SubSeq(ls, 1, Max({0} \cup {i \in 1..Len(ls) : strip(ls[i]) # <<>>}))

\* sign_file without the loop that pops the trailing blank lines
sign_file_untrimmed(content, in_place) ==
    LET sig == <<Digest(canonical_bytes(content))>>
        filtered == SelectSeq(split(read_text(content), LF), keep_line)
        out == filtered \o << <<>>, K_sign \o <<" ">> \o sig, K_close >>
    IN  [signature |-> sig,
         content |-> IF in_place THEN join(out, LF) ELSE content]

sign_file(content, in_place) ==
    LET sig == compute_signature(content)
        filtered == SelectSeq(split(read_text(content), LF), keep_line)
        out == pop_trailing_blank(filtered)
                 \o << <<>>, K_sign \o <<" ">> \o sig, K_close >>
    IN  [signature |-> sig,
         content |-> IF in_place THEN join(out, LF) ELSE content]

unsign_file(content) ==
    LET ls == split(read_text(content), LF)
        found_signature == \E i \in 1..Len(ls) : is_sign_or_close(ls[i])
        filtered == SelectSeq(ls, keep_line)
    IN  [removed |-> found_signature,
         content |-> IF found_signature
                     THEN join(pop_trailing_blank(filtered), LF)
                     ELSE content]

(***************************************************************************)
(* The calls made on the file: sign, verify and unsign (sn.py's commands)  *)
(* and an edit made by hand between two calls (test_signature_invalidation).*)
(***************************************************************************)

\* the contents a file starts with: up to MaxChunks pieces, one after the other
FileChunks ==
    { <<"a">>, <<" ">>, <<LF>>, <<CR>>, <<BOM>>,
      <<"S", "i", "g", "n", ":">>, K_close, <<Digest(<<>>)>> }

RECURSIVE Concats(_)
Concats(n) ==
    IF n = 0 THEN {<<>>}
    ELSE LET P == Concats(n - 1) IN P \cup {p \o c : p \in P, c \in FileChunks}

\* the characters an edit may insert or write over another
EditChars == {"a", LF, CR, BOM}

NoCall == [op |-> "none", valid |-> FALSE, kind |-> "", expected |-> <<>>,
           found |-> <<>>, sig |-> <<>>, removed |-> FALSE]

Touched(op, before, sig, removed) ==
    [op |-> op, before |-> before, sig |-> sig, removed |-> removed]

\* the index in the raw bytes at which the first sign: line begins (0: none)
SignLineStart(bytes) ==
    LET n == Len(bytes)
        lineEnd(k) == Min({j \in k..n : bytes[j] \in {LF, CR}} \cup {n + 1})
        starts == {k \in 1..n :
                     /\ \/ k = 1
                        \/ bytes[k - 1] \in {LF, CR}
                        \/ (k = 2 /\ bytes[1] = BOM)
                     /\ ~(k = 1 /\ bytes[1] = BOM)
                     /\ startswith(lower(lstrip(SubSeq(bytes, k, lineEnd(k) - 1))), K_sign)}
    IN  IF starts = {} THEN 0 ELSE Min(starts)

\* the file was edited by hand: the model follows the edit by reads only
Tampered == \E i \in 1..Len(hist) : hist[i].op = "tamper"

\* no text is being formatted
NoInline == [text |-> <<>>, result |-> <<>>, pass |-> 0]

\* no sign or verify call is under way
\* (reads: what each read of the file by the call returned, in order)
Idle == [op |-> "none", step |-> 0, sig |-> <<>>, found |-> None, reads |-> <<>>]

InitParser ==
    /\ lines = <<>>
    /\ current_line = 0
    /\ pc = "idle"
    /\ metadata = <<>>
    /\ nodes = <<>>
    /\ is_closed = FALSE
    /\ signature = None
    /\ acc = [src |-> 0, parts |-> <<>>]
    /\ error = [kind |-> "", text |-> <<>>]

Init ==
    /\ file \in Concats(MaxChunks)
    /\ hist = <<>>
    /\ last = NoCall
    /\ mode = "lenient"
    /\ InitParser
    /\ inline = NoInline
    /\ call = Idle

\* sign_file(filepath, in_place=True)
SignInPlace ==
    /\ pc \in {"idle", "done"}
    /\ Len(hist) < MaxOps
    /\ ~Tampered
    /\ LET r == sign_file(file, TRUE)
       IN  /\ file' = r.content
           /\ hist' = Append(hist, Touched("sign", file, r.signature, FALSE))
           /\ last' = [NoCall EXCEPT !.op = "sign", !.sig = r.signature]
    /\ UNCHANGED <<parserVars, inline, call>>

\* sign_file(filepath) with in_place left False: the file is not written
SignOnly ==
    /\ pc = "idle"
    /\ LET r == sign_file(file, FALSE)
       IN  /\ file' = r.content
           /\ last' = [NoCall EXCEPT !.op = "signonly", !.sig = r.signature]
    /\ UNCHANGED <<hist, parserVars, inline, call>>

\* verify_signature(filepath)
Verify ==
    /\ pc = "idle"
    /\ LET r == verify_signature(file)
       IN  last' = [NoCall EXCEPT !.op = "verify", !.valid = r.valid, !.kind = r.kind,
                                  !.expected = r.expected, !.found = r.found]
    /\ UNCHANGED <<file, hist, parserVars, inline, call>>

\* unsign_file(filepath)
Unsign ==
    /\ pc = "idle"
    /\ Len(hist) < MaxOps
    /\ ~Tampered
    /\ LET r == unsign_file(file)
       IN  /\ file' = r.content
           /\ hist' = Append(hist, Touched("unsign", file, <<>>, r.removed))
           /\ last' = [NoCall EXCEPT !.op = "unsign", !.removed = r.removed]
    /\ UNCHANGED <<parserVars, inline, call>>

\* One edit of a validly signed file, strictly before its sign: line: a
\* character inserted, deleted or changed.  The file edited is one that was
\* written signed or has been signed once.
Tamper ==
    /\ pc = "idle"
    /\ Len(hist) < MaxOps
    /\ \A i \in 1..Len(hist) : i = 1 /\ hist[i].op = "sign"
    /\ verify_signature(file).valid
    /\ \E p \in 1..(SignLineStart(file) - 1) :
          \E edited \in
                {SubSeq(file, 1, p - 1) \o SubSeq(file, p + 1, Len(file))}
                \cup {SubSeq(file, 1, p - 1) \o <<c>> \o SubSeq(file, p, Len(file)) :
                        c \in EditChars}
                \cup {[file EXCEPT ![p] = c] : c \in EditChars \ {file[p]}} :
             /\ file' = edited
             /\ hist' = Append(hist, Touched("tamper", file, <<>>, FALSE))
             /\ last' = [NoCall EXCEPT !.op = "tamper"]
    /\ UNCHANGED <<parserVars, inline, call>>

\* The calls as they read and write the file, one access at a time, while
\* another process may write the file between two accesses.

\* the contents the other process writes, and the file starts with
RaceFiles ==
    LET U == <<"a", LF>>
    IN  { U,
          <<"b", LF>>,
          sign_file(U, TRUE).content,
          U \o <<LF>> \o K_sign \o <<" ", "x">> }

InitRace ==
    /\ file \in RaceFiles
    /\ hist = <<>>
    /\ last = NoCall
    /\ mode = "lenient"
    /\ InitParser
    /\ inline = NoInline
    /\ call = Idle

\* another process overwrites the file
Overwrite ==
    /\ file' \in RaceFiles \ {file}
    /\ UNCHANGED <<hist, last, parserVars, inline, call>>

\* a call begins: its first access is a read of the whole file
Begin(op) == [Idle EXCEPT !.op = op, !.step = 1, !.reads = <<file>>]

\* the call goes on with one more read of the whole file
Read(c) == [c EXCEPT !.step = @ + 1, !.reads = Append(@, file)]

\* the call returns
Return(c) == [c EXCEPT !.step = 0]

\* sign_file: signature = compute_signature(filepath), which reads the file
SignCompute ==
    /\ call.step = 0
    /\ Len(hist) < MaxRaceOps
    /\ call' = [Begin("sign") EXCEPT !.sig = compute_signature(file)]
    /\ UNCHANGED <<file, hist, last, parserVars, inline>>

\* sign_file, in place: content = f.read()
SignRead ==
    /\ call.op = "sign" /\ call.step = 1
    /\ call' = Read(call)
    /\ UNCHANGED <<file, hist, last, parserVars, inline>>

\* sign_file, in place: the lines of content are filtered, the signature
\* appended, and the file written
SignWrite ==
    /\ call.op = "sign" /\ call.step = 2
    /\ LET content == call.reads[2]
           filtered == SelectSeq(split(read_text(content), LF), keep_line)
           out == pop_trailing_blank(filtered)
                    \o << <<>>, K_sign \o <<" ">> \o call.sig, K_close >>
       IN  /\ file' = join(out, LF)
           /\ hist' = Append(hist, Touched("sign", content, call.sig, FALSE))
    /\ last' = [NoCall EXCEPT !.op = "sign", !.sig = call.sig]
    /\ call' = Return(call)
    /\ UNCHANGED <<parserVars, inline>>

\* verify_signature: existing_sig = extract_signature(filepath), which reads
\* the file; the call returns if there is none
VerifyExtract ==
    /\ call.step = 0
    /\ LET c == [Begin("verify") EXCEPT !.found = extract_signature(file)]
       IN  IF c.found.some
           THEN call' = c /\ UNCHANGED last
           ELSE /\ call' = Return(c)
                /\ last' = [NoCall EXCEPT !.op = "verify", !.kind = "nosig"]
    /\ UNCHANGED <<file, hist, parserVars, inline>>

\* verify_signature: expected_sig = compute_signature(filepath), which reads
\* the file; the call returns if the two differ
VerifyCompute ==
    /\ call.op = "verify" /\ call.step = 1
    /\ LET c == [Read(call) EXCEPT !.sig = compute_signature(file)]
       IN  IF c.found.val = c.sig
           THEN call' = c /\ UNCHANGED last
           ELSE /\ call' = Return(c)
                /\ last' = [NoCall EXCEPT !.op = "verify", !.kind = "mismatch",
                                          !.expected = c.sig, !.found = c.found.val]
    /\ UNCHANGED <<file, hist, parserVars, inline>>

\* verify_signature: is_closed = has_close_marker(filepath), which reads the
\* file
VerifyClose ==
    /\ call.op = "verify" /\ call.step = 2
    /\ call' = Return(Read(call))
    /\ last' = [NoCall EXCEPT !.op = "verify", !.valid = TRUE,
                              !.kind = IF has_close_marker(file) THEN "sealed"
                                       ELSE "unsealed",
                              !.expected = call.sig]
    /\ UNCHANGED <<file, hist, parserVars, inline>>

\* unsign_file: content = f.read(); the call returns False if no line is a
\* sign: or close: line
UnsignRead ==
    /\ call.step = 0
    /\ Len(hist) < MaxRaceOps
    /\ IF unsign_file(file).removed
       THEN call' = Begin("unsign") /\ UNCHANGED <<hist, last>>
       ELSE /\ call' = Return(Begin("unsign"))
            /\ hist' = Append(hist, Touched("unsign", file, <<>>, FALSE))
            /\ last' = [NoCall EXCEPT !.op = "unsign"]
    /\ UNCHANGED <<file, parserVars, inline>>

\* unsign_file: the lines left are written
UnsignWrite ==
    /\ call.op = "unsign" /\ call.step = 1
    /\ file' = unsign_file(call.reads[1]).content
    /\ hist' = Append(hist, Touched("unsign", call.reads[1], <<>>, TRUE))
    /\ last' = [NoCall EXCEPT !.op = "unsign", !.removed = TRUE]
    /\ call' = Return(call)
    /\ UNCHANGED <<parserVars, inline>>

NextRace ==
    \/ Overwrite
    \/ SignCompute
    \/ SignRead
    \/ SignWrite
    \/ VerifyExtract
    \/ VerifyCompute
    \/ VerifyClose
    \/ UnsignRead
    \/ UnsignWrite

SpecRace == InitRace /\ [][NextRace]_vars

\* the line terminators a file may be saved with
Terminators == {<<LF>>, <<CR>>, <<CR, LF>>}

\* content with every line terminator, whichever it is, written as nl
RECURSIVE Reterminate(_, _)
Reterminate(content, nl) ==
    IF content = <<>> THEN <<>>
    ELSE IF Len(content) > 1 /\ content[1] = CR /\ content[2] = LF
    THEN nl \o Reterminate(SubSeq(content, 3, Len(content)), nl)
    ELSE IF content[1] \in {CR, LF}
    THEN nl \o Reterminate(Tail(content), nl)
    ELSE <<content[1]>> \o Reterminate(Tail(content), nl)

\* The file is saved again by another program, with the line terminator nl
\* and with or without a byte-order mark; its text is otherwise the same
\* (a text that itself begins with U+FEFF is left alone).
Resave ==
    /\ pc = "idle"
    /\ Len(hist) < MaxResaves
    /\ ~startswith(strip_bom(file), <<BOM>>)
    /\ \E nl \in Terminators, bom \in BOOLEAN :
           file' = (IF bom THEN <<BOM>> ELSE <<>>) \o Reterminate(strip_bom(file), nl)
    /\ hist' = Append(hist, Touched("resave", file, <<>>, FALSE))
    /\ last' = NoCall
    /\ UNCHANGED <<parserVars, inline, call>>

\* the calls that read a file which may have been saved again
NextCanon == Resave \/ SignOnly \/ Verify

SpecCanon == Init /\ [][NextCanon]_vars

\* Edits of what follows the first sign: line of a file.

\* the index in the raw bytes of the last byte of the terminator of the
\* first sign: line (0: no sign: line; Len + 1: the line is not terminated)
SignLineEnd(bytes) ==
    LET n == Len(bytes)
        s == SignLineStart(bytes)
        t == Min({j \in s..n : bytes[j] \in {LF, CR}} \cup {n + 1})
    IN  IF s = 0 THEN 0
        ELSE IF t < n /\ bytes[t] = CR /\ bytes[t + 1] = LF THEN t + 1
        ELSE t

\* the files edited: not signed yet, signed in place, signed by hand with
\* CRLF line ends and a value that is not the digest, and a BOM followed by
\* a sign: line that carries the digest of the empty content
TailFiles ==
    LET U == <<"a", LF>>
    IN  { U,
          sign_file(U, TRUE).content,
          U \o K_sign \o <<" ", "x", CR, LF>> \o K_close,
          <<BOM, "S", "i", "g", "n", ":", Digest(<<>>)>> }

InitTail ==
    /\ file \in TailFiles
    /\ hist = <<>>
    /\ last = NoCall
    /\ mode = "lenient"
    /\ InitParser
    /\ inline = NoInline
    /\ call = Idle

TailEdits == Cardinality({i \in 1..Len(hist) : hist[i].op = "edit"})

\* One edit after the first sign: line of the file: a character inserted
\* or deleted past the terminator of that line (two such edits change a
\* character), or, the line being the unterminated end of the file, a
\* terminator and a further line added.
EditTail ==
    /\ pc = "idle"
    /\ Len(hist) < MaxOps
    /\ TailEdits < MaxTailEdits
    /\ \A i \in 1..Len(hist) : hist[i].op = "edit" \/ i = 1
    /\ SignLineStart(file) > 0
    /\ LET e == SignLineEnd(file)
           n == Len(file)
       IN  \E edited \in
                IF e > n
                THEN {file \o <<t>> \o x : t \in {LF, CR}, x \in {<<>>, <<"a">>}}
                ELSE {SubSeq(file, 1, p - 1) \o SubSeq(file, p + 1, n) : p \in (e + 1)..n}
                     \cup {SubSeq(file, 1, p - 1) \o <<c>> \o SubSeq(file, p, n) :
                             p \in (e + 1)..(n + 1), c \in EditChars \ {BOM}} :
             /\ edited # file
             /\ file' = edited
             /\ hist' = Append(hist, Touched("edit", file, <<>>, FALSE))
             /\ last' = [NoCall EXCEPT !.op = "edit"]
    /\ UNCHANGED <<parserVars, inline, call>>

NextTail == SignInPlace \/ Verify \/ EditTail

SpecTail == InitTail /\ [][NextTail]_vars

Next == SignInPlace \/ SignOnly \/ Verify \/ Unsign \/ Tamper

Spec == Init /\ [][Next]_vars

(***************************************************************************)
(* sn_parser.py: SNTokenizer and SNParser                                  *)
(***************************************************************************)
HEADER == <<"<", "s", "u", "p", "e", "r", "-", "n", "o", "t", "a", "t", "i", "o", "n", "-", "v", "1", ">">>
K_meta == <<"m", "e", "t", "a", ":">>
K_title == <<"t", "i", "t", "l", "e", ":">>
K_sec == <<"s", "e", "c", ":">>
K_seceq == <<"s", "e", "c", "=">>
K_para == <<"p", "a", "r", "a", ":">>
K_breakline == <<"b", "r", "e", "a", "k", "-", "l", "i", "n", "e">>
K_olist == <<"o", "l", "i", "s", "t", ":">>
K_bullet == <<"b", "u", "l", "l", "e", "t">>
K_numbers == <<"n", "u", "m", "b", "e", "r", "s">>
K_code == <<"c", "o", "d", "e", ":">>
K_endcode == <<"e", "n", "d", "c", "o", "d", "e", ":">>
K_img == <<"i", "m", "g", ":", "=">>
K_link == <<"l", "i", "n", "k", ":">>
K_linktxt == <<"l", "i", "n", "k", "t", "x", "t", ":">>
K_opensn == <<"o", "p", "e", "n", "s", "n", "=">>
K_endnewsn == <<"e", "n", "d", "n", "e", "w", "s", "n", ":">>

\* SNTokenizer.is_comment
is_comment(line) == startswith(lstrip(line), <<"#">>)

\* SNTokenizer.is_blank
is_blank(line) == strip(line) = <<>>

\* SNTokenizer.has_more
has_more == current_line < Len(lines)

\* SNTokenizer.peek_line, where has_more
peek_line == lines[current_line + 1]

\* consume_line without the test that a line is left
consumed_unguarded(n) == current_line + n

\* SNTokenizer.consume_line, n times: the cursor stops at the end of input
consumed(n) == IF current_line + n <= Len(lines) THEN current_line + n ELSE Len(lines)

\* s[n:]
from(s, n) == SubSeq(s, n + 1, Len(s))

\* A node (or metadata entry): its class, its fields in order, and the
\* 1-based number of the source line it was made from.
Node(type, args, src) == [type |-> type, args |-> args, src |-> src]

NoError == [kind |-> "", text |-> <<>>]
ValueError(kind, text) == [kind |-> kind, text |-> text]

NoAcc == [src |-> 0, parts |-> <<>>]

\* _parse_header's test without regard to case
header_ok_nocase(line) == lower(strip(line)) = HEADER

\* _parse_header's test of the first line that is neither blank nor comment
header_ok(line) == strip(line) = HEADER

\* re.match(r'sec=([^:]+):\s*(.*)', stripped, re.IGNORECASE), and the same
\* for opensn=: n is the length of the keyword, already known to be there
re_link(stripped, n) ==
    LET rest == from(stripped, n)
        colons == {j \in 1..Len(rest) : rest[j] = ":"}
    IN  IF colons = {} \/ Min(colons \cup {Len(rest) + 1}) = 1
        THEN [matched |-> FALSE, id |-> <<>>, text |-> <<>>]
        ELSE [matched |-> TRUE,
              id |-> strip(SubSeq(rest, 1, Min(colons) - 1)),
              text |-> strip(from(rest, Min(colons)))]

\* content.split(sep, 1) where sep is in content
split_once(content, sep) ==
    LET k == Min({j \in 1..Len(content) : content[j] = sep})
    IN  <<SubSeq(content, 1, k - 1), from(content, k)>>

contains(content, ch) == \E j \in 1..Len(content) : content[j] = ch

\* SNParser._parse_image
_parse_image(content, src) ==
    IF contains(content, "|")
    THEN Node("Image", <<strip(split_once(content, "|")[1]),
                         strip(split_once(content, "|")[2])>>, src)
    ELSE Node("Image", <<strip(content), <<>> >>, src)

\* SNParser._parse_link_text
_parse_link_text(content, src) ==
    IF contains(content, "|")
    THEN Node("LinkText", <<strip(split_once(content, "|")[1]),
                            strip(split_once(content, "|")[2])>>, src)
    ELSE IF contains(content, ":")
    THEN Node("LinkText", <<strip(split_once(content, ":")[1]),
                            strip(split_once(content, ":")[2])>>, src)
    ELSE Node("LinkText", <<content, content>>, src)

\* SNParser._looks_like_command
_looks_like_command(line) ==
    LET stripped == lower(strip(line))
    IN  \E cmd \in {K_title, K_sec, K_seceq, K_para, K_breakline, K_olist, K_code,
                    K_img, K_link, K_linktxt, K_opensn, K_endnewsn, K_sign,
                    K_close, K_meta} : startswith(stripped, cmd)

\* the node of an unrecognized line, holding the trimmed line
UnknownNode_trimmed(line, src) == Node("Unknown", <<strip(line)>>, src)

\* the node of an unrecognized line in lenient mode
UnknownNode(line, src) == Node("Unknown", <<line>>, src)

\* SNParser._parse_node on a line that is neither blank nor comment.
\* eat: the lines consumed; goto: where parse() is next; node: the node
\* returned, if any.  A sec= or opensn= line is consumed before its pattern
\* is tried, and when the pattern fails control falls through the remaining
\* tests, none of which such a line passes, to the unknown-command branch.
_parse_node(line, src, m) ==
    LET Ret(eat, goto, node) ==
            [eat |-> eat, goto |-> goto, node |-> node, err |-> NoError]
        \* the tests, on stripped = line.strip() and lo = stripped.lower()
        tests(stripped, lo) ==
            LET already == IF startswith(lo, K_seceq) \/ startswith(lo, K_opensn)
                           THEN 1 ELSE 0
            IN  IF startswith(lo, K_title)
            THEN Ret(1, "body", <<Node("Title", <<strip(from(stripped, 6))>>, src)>>)
            ELSE IF startswith(lo, K_sec) /\ ~contains(SubSeq(stripped, 1, 4), "=")
            THEN Ret(1, "body", <<Node("SectionDef", <<strip(from(stripped, 4))>>, src)>>)
            ELSE IF startswith(lo, K_seceq) /\ re_link(stripped, 4).matched
            THEN Ret(1, "body", <<Node("SectionLink",
                      <<re_link(stripped, 4).id, re_link(stripped, 4).text>>, src)>>)
            ELSE IF startswith(lo, K_para)
            THEN Ret(1, "body", <<Node("Paragraph", <<strip(from(stripped, 5))>>, src)>>)
            ELSE IF lo \in {K_breakline, K_breakline \o <<":">>}
            THEN Ret(1, "body", <<Node("BreakLine", <<>>, src)>>)
            ELSE IF startswith(lo, K_olist)
            THEN IF startswith(lo, K_olist \o K_bullet) \/ startswith(lo, K_olist \o K_numbers)
                 THEN Ret(1, "list", <<>>)
                 ELSE [eat |-> 0, goto |-> "error", node |-> <<>>,
                       err |-> ValueError("InvalidListType", stripped)]
            ELSE IF lo = K_code
            THEN Ret(1, "code", <<>>)
            ELSE IF startswith(lo, K_img)
            THEN Ret(1, "body", <<_parse_image(from(stripped, 5), src)>>)
            ELSE IF startswith(lo, K_link)
            THEN Ret(1, "body", <<Node("Link", <<strip(from(stripped, 5))>>, src)>>)
            ELSE IF startswith(lo, K_linktxt)
            THEN Ret(1, "body", <<_parse_link_text(from(stripped, 8), src)>>)
            ELSE IF startswith(lo, K_opensn) /\ re_link(stripped, 7).matched
            THEN Ret(1, "body", <<Node("OpenSN",
                      <<re_link(stripped, 7).id, re_link(stripped, 7).text>>, src)>>)
            ELSE IF startswith(lo, K_endnewsn)
            THEN Ret(1, "body", <<Node("EndNewSN", <<strip(from(stripped, 9))>>, src)>>)
            ELSE IF startswith(lo, K_sign)
            THEN Ret(1, "body", <<Node("Signature", <<strip(from(stripped, 5))>>, src)>>)
            ELSE IF lo = K_close
            THEN Ret(1, "body", <<Node("Close", <<>>, src)>>)
            ELSE IF m = "strict"
            THEN [eat |-> already, goto |-> "error", node |-> <<>>,
                  err |-> ValueError("UnknownCommand", line)]
            ELSE Ret(already + 1, "body", <<UnknownNode(line, src)>>)
    IN  CHOOSE r \in {tests(stripped, lower(stripped)) : stripped \in {strip(line)}} : TRUE

\* the list type of an olist: line that _parse_list accepted
list_type(stripped) ==
    IF startswith(lower(stripped), K_olist \o K_bullet) THEN K_bullet ELSE K_numbers

\* cmd_parse: the file is read as text and handed to SNParser.parse, which
\* makes the tokenizer and an empty Document
StartParse ==
    /\ \/ pc = "idle"
       \/ pc = "done" /\ lines # split(read_text(file), LF)
    /\ lines' = split(read_text(file), LF)
    /\ current_line' = 0
    /\ metadata' = <<>>
    /\ nodes' = <<>>
    /\ is_closed' = FALSE
    /\ signature' = None
    /\ acc' = NoAcc
    /\ error' = NoError
    /\ pc' = "header"
    /\ UNCHANGED <<inline, call, file, hist, last, mode>>

\* one turn of the loop of _parse_header, and parse()'s raise when it fails
HeaderStep ==
    /\ pc = "header"
    /\ IF ~has_more
       THEN pc' = "error" /\ error' = ValueError("MissingHeader", <<>>)
            /\ UNCHANGED current_line
       ELSE IF is_blank(peek_line) \/ is_comment(peek_line)
       THEN current_line' = consumed(1) /\ UNCHANGED <<pc, error>>
       ELSE IF header_ok(peek_line)
       THEN current_line' = consumed(1) /\ pc' = "metadata" /\ UNCHANGED error
       ELSE pc' = "error" /\ error' = ValueError("MissingHeader", <<>>)
            /\ UNCHANGED current_line
    /\ UNCHANGED <<inline, call, file, hist, last, mode, lines, metadata, nodes, is_closed,
                   signature, acc>>

\* the content of a meta: line without the trim of what follows the keyword
meta_content_raw(stripped) == from(stripped, 5)

\* _parse_metadata: content = stripped[5:].strip()
meta_content(stripped) == strip(from(stripped, 5))

\* one turn of the loop of _parse_metadata
MetadataStep ==
    /\ pc = "metadata"
    /\ IF ~has_more
       THEN pc' = "body" /\ UNCHANGED <<current_line, metadata>>
       ELSE IF is_blank(peek_line) \/ is_comment(peek_line)
       THEN current_line' = consumed(1) /\ UNCHANGED <<pc, metadata>>
       ELSE IF startswith(lower(strip(peek_line)), K_meta)
       THEN /\ current_line' = consumed(1)
            /\ metadata' = Append(metadata,
                   Node("Meta", <<meta_content(strip(peek_line))>>, current_line + 1))
            /\ UNCHANGED pc
       ELSE pc' = "body" /\ UNCHANGED <<current_line, metadata>>
    /\ UNCHANGED <<inline, call, file, hist, last, mode, lines, nodes, is_closed, signature,
                   acc, error>>

\* parse()'s body loop breaking after any node in strict mode
after_node_anybreak(n, m, goto) == IF n # "" /\ m = "strict" THEN "done" ELSE goto

\* parse()'s body loop with no break after an endnewsn node
after_node_nobreak(n, m, goto) == goto

\* where parse()'s body loop goes after a node: it breaks after an
\* EndNewSNNode in strict mode
after_node(n, m, goto) == IF n = "EndNewSN" /\ m = "strict" THEN "done" ELSE goto

\* one turn of the body loop of parse(): a call of _parse_node and what
\* parse() does with the node (a list or a code block is read by the turns
\* of ListStep and CodeStep)
BodyStep ==
    /\ pc = "body"
    /\ IF ~has_more
       THEN pc' = "done"
            /\ UNCHANGED <<current_line, nodes, is_closed, signature, acc, error>>
       ELSE IF is_blank(peek_line) \/ is_comment(peek_line)
       THEN current_line' = consumed(1)
            /\ UNCHANGED <<pc, nodes, is_closed, signature, acc, error>>
       ELSE \E r \in {_parse_node(peek_line, current_line + 1, mode)} :
            LET n == IF r.node = <<>> THEN "" ELSE r.node[1].type
            IN  /\ current_line' = consumed(r.eat)
                /\ error' = r.err
                /\ nodes' = nodes \o r.node
                /\ signature' = IF n = "Signature" THEN Some(r.node[1].args[1])
                                ELSE signature
                /\ is_closed' = IF n = "Close" THEN TRUE ELSE is_closed
                /\ acc' = IF r.goto = "list"
                          THEN [src |-> current_line + 1,
                                parts |-> <<list_type(strip(peek_line))>>]
                          ELSE IF r.goto = "code"
                          THEN [src |-> current_line + 1, parts |-> <<>>]
                          ELSE acc
                /\ pc' = after_node(n, mode, r.goto)
    /\ UNCHANGED <<inline, call, file, hist, last, mode, lines, metadata>>

\* one turn of the loop of _parse_list; when the loop ends parse() appends
\* the ListNode (list type first, then the items)
ListStep ==
    /\ pc = "list"
    /\ IF \/ ~has_more
          \/ is_blank(peek_line)
          \/ (~is_comment(peek_line) /\ _looks_like_command(peek_line))
       THEN /\ nodes' = Append(nodes, Node("List", acc.parts, acc.src))
            /\ acc' = NoAcc
            /\ pc' = "body"
            /\ UNCHANGED current_line
       ELSE IF is_comment(peek_line)
       THEN current_line' = consumed(1) /\ UNCHANGED <<nodes, acc, pc>>
       ELSE /\ current_line' = consumed(1)
            /\ acc' = [acc EXCEPT !.parts = Append(@, strip(peek_line))]
            /\ UNCHANGED <<nodes, pc>>
    /\ UNCHANGED <<inline, call, file, hist, last, mode, lines, metadata, is_closed, signature, error>>

\* the test for the end of a code block without trim and case folding
is_endcode_exact(line) == line = K_endcode

\* _parse_code_block: line.strip().lower() == 'endcode:'
is_endcode(line) == lower(strip(line)) = K_endcode

\* one turn of the loop of _parse_code_block; when the loop ends parse()
\* appends the CodeBlockNode
CodeStep ==
    /\ pc = "code"
    /\ IF ~has_more \/ is_endcode(peek_line)
       THEN /\ current_line' = consumed(1)
            /\ nodes' = Append(nodes, Node("CodeBlock", <<join(acc.parts, LF)>>, acc.src))
            /\ acc' = NoAcc
            /\ pc' = "body"
       ELSE /\ current_line' = consumed(1)
            /\ acc' = [acc EXCEPT !.parts = Append(@, peek_line)]
            /\ UNCHANGED <<nodes, pc>>
    /\ UNCHANGED <<inline, call, file, hist, last, mode, lines, metadata, is_closed, signature, error>>

\* the groups of lines a document body is made of
BodyChunks ==
    { <<<<>>>>,
      <<<<"#", "c">>>>,
      <<<<"p", "a", "r", "a", ":", " ", "x">>>>,
      <<<<" ", "f", "o", "o">>>>,
      <<<<"s", "e", "c", "=", "b", "a", "d">>>>,
      <<<<"s", "e", "c", "=", "a", ":", " ", "t">>>>,
      <<<<"o", "p", "e", "n", "s", "n", "=", ":", "t">>>>,
      <<<<"o", "l", "i", "s", "t", ":", "b", "u", "l", "l", "e", "t">>, <<"i", "t", "e", "m">>>>,
      <<<<"o", "l", "i", "s", "t", ":", "x">>>>,
      <<<<"c", "o", "d", "e", ":">>>>,
      <<<<"e", "n", "d", "c", "o", "d", "e", ":">>>>,
      <<<<"e", "n", "d", "n", "e", "w", "s", "n", ":", " ", "f">>>>,
      <<<<"m", "e", "t", "a", ":", " ", "m">>>>,
      <<<<" ", "T", "i", "t", "l", "e", ":", " ", "T", " ">>>>,
      <<<<"c", "o", "d", "e", ":", " ", "x">>>>,
      <<<<"s", "i", "g", "n", ":", " ", "s">>, <<"c", "l", "o", "s", "e", ":">>>>,
      <<<<"i", "m", "g", ":", "=", "p", "|", "a">>, <<"l", "i", "n", "k", ":", " ", "u">>, <<"l", "i", "n", "k", "t", "x", "t", ":", " ", "t", "|", "u">>, <<"l", "i", "n", "k", "t", "x", "t", ":", " ", "t">>, <<"s", "e", "c", ":", " ", "s">>, <<"o", "p", "e", "n", "s", "n", "=", "f", ":", " ", "t">>, <<"b", "r", "e", "a", "k", "-", "l", "i", "n", "e", ":">>, <<"c", "o", "d", "e", ":">>, <<" ", "p", "a", "r", "a", ":", " ", "x", " ">>, <<>>, <<"#", "c">>, <<" ", "E", "n", "d", "C", "o", "d", "e", ":", " ">>, <<"O", "L", "I", "S", "T", ":", "N", "u", "m", "b", "e", "r", "s", " ", "1">>>> }

\* documents that exercise the header and metadata phases
HeaderDocs ==
    { <<<<>>>>,
      <<<<>>, <<"#", "c">>>>,
      <<<<"p", "a", "r", "a", ":", " ", "x">>>>,
      <<<<"<", "S", "U", "P", "E", "R", "-", "n", "o", "t", "a", "t", "i", "o", "n", "-", "v", "1", ">">>, <<"p", "a", "r", "a", ":", " ", "x">>>>,
      <<<<"<", "s", "u", "p", "e", "r", "-", "n", "o", "t", "a", "t", "i", "o", "n", "-", "v", "1", ">", "x">>>>,
      <<<<"#", "c">>, <<>>, <<" ", "<", "s", "u", "p", "e", "r", "-", "n", "o", "t", "a", "t", "i", "o", "n", "-", "v", "1", ">", " ">>, <<"m", "e", "t", "a", ":", " ", "m">>, <<>>, <<"#", "c">>, <<"M", "E", "T", "A", ":", " ", "n">>, <<"p", "a", "r", "a", ":", " ", "x">>, <<"m", "e", "t", "a", ":", " ", "z">>>>,
      <<<<"x", " ", "<", "s", "u", "p", "e", "r", "-", "n", "o", "t", "a", "t", "i", "o", "n", "-", "v", "1", ">">>>>,
      <<<<>>, <<"p", "a", "r", "a", ":", " ", "x">>, <<"<", "s", "u", "p", "e", "r", "-", "n", "o", "t", "a", "t", "i", "o", "n", "-", "v", "1", ">">>>> }

RECURSIVE Bodies(_)
Bodies(n) ==
    IF n = 0 THEN {<<>>}
    ELSE LET B == Bodies(n - 1) IN B \cup {b \o c : b \in B, c \in BodyChunks}

Docs == {<<HEADER>> \o b : b \in Bodies(MaxBody)} \cup HeaderDocs

InitParse ==
    /\ file \in {join(d, LF) : d \in Docs}
    /\ hist = <<>>
    /\ last = NoCall
    /\ mode \in {"lenient", "strict"}
    /\ InitParser
    /\ inline = NoInline
    /\ call = Idle

\* cmd_sign on a file that has just been parsed
SignParsed == pc = "done" /\ hist = <<>> /\ SignInPlace

NextParse ==
    \/ StartParse
    \/ HeaderStep
    \/ MetadataStep
    \/ BodyStep
    \/ ListStep
    \/ CodeStep
    \/ SignParsed

\* The same content parsed by a parser of each mode, one after the other.

\* what a parse() call that ended gave: the Document returned or the error
\* raised, with the mode of the parser and the lines of the content
Parsed ==
    [op |-> "parse", mode |-> mode, lines |-> lines, returned |-> pc = "done",
     error |-> error, metadata |-> metadata, nodes |-> nodes,
     is_closed |-> is_closed, signature |-> signature]

\* a parser of the other mode is made and parses the content that the
\* first one has parsed
ParseOtherMode ==
    /\ pc \in {"done", "error"}
    /\ last = NoCall
    /\ last' = Parsed
    /\ mode' = IF mode = "strict" THEN "lenient" ELSE "strict"
    /\ current_line' = 0
    /\ metadata' = <<>>
    /\ nodes' = <<>>
    /\ is_closed' = FALSE
    /\ signature' = None
    /\ acc' = NoAcc
    /\ error' = NoError
    /\ pc' = "header"
    /\ UNCHANGED <<inline, call, file, hist, lines>>

\* a turn of one of the loops of a parse() call
ParseStep == HeaderStep \/ MetadataStep \/ BodyStep \/ ListStep \/ CodeStep

\* parse() is one sequential call: once entered it runs on until it
\* returns or raises
NextParseLive == StartParse \/ ParseStep

SpecParseLive == InitParse /\ [][NextParseLive]_vars /\ WF_vars(ParseStep)

NextModes == StartParse \/ ParseStep \/ ParseOtherMode

SpecModes == InitParse /\ [][NextModes]_vars

SpecParse == InitParse /\ [][NextParse]_vars

(***************************************************************************)
(* sn_parser.py: HTMLRenderer._format_inline                               *)
(***************************************************************************)

\* html.escape(text): &, <, >, " and ' become entities
html_escape_char(c) ==
    IF c = "&" THEN <<"&", "a", "m", "p", ";">>
    ELSE IF c = "<" THEN <<"&", "l", "t", ";">>
    ELSE IF c = ">" THEN <<"&", "g", "t", ";">>
    ELSE IF c = "\"" THEN <<"&", "q", "u", "o", "t", ";">>
    ELSE IF c = "'" THEN <<"&", "#", "x", "2", "7", ";">>
    ELSE <<c>>

RECURSIVE html_escape(_)
html_escape(s) ==
    IF s = <<>> THEN <<>> ELSE html_escape_char(s[1]) \o html_escape(Tail(s))

\* the placeholders '\x00LEFTBRACE\x00' and '\x00RIGHTBRACE\x00'
NUL == "^NUL"
K_LEFTBRACE == <<NUL>> \o <<"L", "E", "F", "T", "B", "R", "A", "C", "E">> \o <<NUL>>
K_RIGHTBRACE == <<NUL>> \o <<"R", "I", "G", "H", "T", "B", "R", "A", "C", "E">> \o <<NUL>>

\* the opening keywords of the directives, brace included
D_b == <<"{", "b", ":">>
D_bold == <<"{", "b", "o", "l", "d", ":">>
D_i == <<"{", "i", ":">>
D_italic == <<"{", "i", "t", "a", "l", "i", "c", ":">>
D_u == <<"{", "u", ":">>
D_color == <<"{", "c", "o", "l", "o", "r", "=">>

\* the tags the directives expand to
T_strong == <<<<"<", "s", "t", "r", "o", "n", "g", ">">>, <<"<", "/", "s", "t", "r", "o", "n", "g", ">">>>>
T_em == <<<<"<", "e", "m", ">">>, <<"<", "/", "e", "m", ">">>>>
T_u == <<<<"<", "u", ">">>, <<"<", "/", "u", ">">>>>
T_span == <<<<"<", "s", "p", "a", "n", " ", "s", "t", "y", "l", "e", "=", "\"", "c", "o", "l", "o", "r", ":", " ">>, <<"\"", ">">>, <<"<", "/", "s", "p", "a", "n", ">">>>>

\* the index of the first x in s at or after position k (0: there is none)
find(s, x, k) ==
    LET idx == {j \in k..Len(s) : s[j] = x}
    IN  IF idx = {} THEN 0 ELSE Min(idx)

\* re.sub(r'\{kw(.*?)\}', r'<tag>\1</tag>', s, flags=re.IGNORECASE): the
\* leftmost opening keyword that has a closing brace after it, up to the
\* first such brace; then on from there
RECURSIVE re_sub(_, _, _)
re_sub(s, kw, tag) ==
    LET hits == {i \in 1..Len(s) :
                    /\ startswith(lower(from(s, i - 1)), kw)
                    /\ find(s, "}", i + Len(kw)) # 0}
    IN  IF hits = {} THEN s
        ELSE LET i == Min(hits)
                 j == find(s, "}", i + Len(kw))
             IN  SubSeq(s, 1, i - 1) \o tag[1] \o SubSeq(s, i + Len(kw), j - 1)
                     \o tag[2] \o re_sub(from(s, j), kw, tag)

\* re.sub(r'\{color=([^:]+):(.*?)\}', lambda m: ..., s, flags=re.IGNORECASE):
\* the colour token runs to the first colon and is not empty; it is escaped
\* once more, the inner text is not
RECURSIVE re_sub_color(_)
re_sub_color(s) ==
    LET colon(i) == find(s, ":", i + Len(D_color))
        hits == {i \in 1..Len(s) :
                    /\ startswith(lower(from(s, i - 1)), D_color)
                    /\ colon(i) > i + Len(D_color)
                    /\ find(s, "}", colon(i) + 1) # 0}
    IN  IF hits = {} THEN s
        ELSE LET i == Min(hits)
                 p == colon(i)
                 j == find(s, "}", p + 1)
             IN  SubSeq(s, 1, i - 1) \o T_span[1]
                     \o html_escape(SubSeq(s, i + Len(D_color), p - 1)) \o T_span[2]
                     \o SubSeq(s, p + 1, j - 1) \o T_span[3]
                     \o re_sub_color(from(s, j))

\* the number of statements of _format_inline that assign to result
LastPass == 11

\* the statement of _format_inline numbered n, applied to its argument
\* text (n = 1) or to result as the statements before it left it
format_pass(n, text, result) ==
    CASE n = 1 -> html_escape(text)
      [] n = 2 -> replace(result, <<"{", "{">>, K_LEFTBRACE)
      [] n = 3 -> replace(result, <<"}", "}">>, K_RIGHTBRACE)
      [] n = 4 -> re_sub(result, D_b, T_strong)
      [] n = 5 -> re_sub(result, D_bold, T_strong)
      [] n = 6 -> re_sub(result, D_i, T_em)
      [] n = 7 -> re_sub(result, D_italic, T_em)
      [] n = 8 -> re_sub(result, D_u, T_u)
      [] n = 9 -> re_sub_color(result)
      [] n = 10 -> replace(result, K_LEFTBRACE, <<"{">>)
      [] n = 11 -> replace(result, K_RIGHTBRACE, <<"}">>)

\* _format_inline(text), all its statements in order
RECURSIVE format_upto(_, _)
format_upto(n, text) ==
    IF n = 0 THEN <<>> ELSE format_pass(n, text, format_upto(n - 1, text))

_format_inline(text) == format_upto(LastPass, text)

\* the pieces the texts given to _format_inline are made of
Segments ==
    { <<"a", "<">>,
      <<"{", "{">>,
      <<"}", "}">>,
      <<"{", "b", ":", "X", "}">>,
      <<"{", "I", ":", "y", "}">>,
      <<"{", "c", "o", "l", "o", "r", "=", "r", ":", "c", "}">>,
      <<"{", "b", ":">>,
      <<"}">> }

RECURSIVE Texts(_)
Texts(n) ==
    IF n = 0 THEN {<<>>}
    ELSE LET P == Texts(n - 1) IN P \cup {p \o c : p \in P, c \in Segments}

InitRender ==
    /\ file = <<>>
    /\ hist = <<>>
    /\ last = NoCall
    /\ mode = "lenient"
    /\ InitParser
    /\ inline \in {[text |-> t, result |-> <<>>, pass |-> 0] : t \in Texts(MaxSegs)}
    /\ call = Idle

\* the next statement of _format_inline
FormatStep ==
    /\ inline.pass < LastPass
    /\ inline' = [inline EXCEPT !.pass = @ + 1,
                                !.result = format_pass(inline.pass + 1, inline.text, @)]
    /\ UNCHANGED <<file, hist, last, parserVars, call>>

NextRender == FormatStep

SpecRender == InitRender /\ [][NextRender]_vars

(***************************************************************************)
(* What the properties below say of a file, in their own words.            *)
(***************************************************************************)

\* the lines of a file: BOM removed, CRLF and lone CR read as LF
LinesOf(bytes) == split(normalize_newlines(strip_bom(bytes)), LF)

IsSignLine(l) == startswith(lower(strip(l)), K_sign)

IsCloseLine(l) == lower(strip(l)) = K_close

\* the index of the first sign: line among ls (0: there is none)
FirstSign(ls) ==
    IF \E i \in 1..Len(ls) : IsSignLine(ls[i])
    THEN Min({i \in 1..Len(ls) : IsSignLine(ls[i])})
    ELSE 0

\* what a sign: line carries after its keyword
SignValue(l) == strip(SubSeq(strip(l), Len(K_sign) + 1, Len(strip(l))))

\* the text before the first sign: line (its lines joined by LF, the last
\* one left unterminated), and the lines from the sign: line on
SignedText(bytes) == join(SubSeq(LinesOf(bytes), 1, FirstSign(LinesOf(bytes)) - 1), LF)
SignTail(bytes) == SubSeq(LinesOf(bytes), FirstSign(LinesOf(bytes)), Len(LinesOf(bytes)))

LastTouch == hist[Len(hist)]

(***************************************************************************)
(* C1                                                                      *)
(***************************************************************************)

\* C1: whatever the file held, once sign_file has signed it in place,
\* verify_signature reports it valid and has_close_marker is true.
C1_VerifyAfterSign ==
    (hist # <<>> /\ LastTouch.op = "sign" /\ last.op = "verify")
        => (last.valid /\ has_close_marker(file))

(***************************************************************************)
(* C2                                                                      *)
(***************************************************************************)

\* C2 as stated: after any edit of a validly signed file strictly before its
\* sign: line, verify_signature answers invalid with a mismatch message.
C2_AnyEditInvalidates ==
    (Tampered /\ last.op = "verify")
        => (~last.valid /\ last.kind = "mismatch")

\* C2, amended: after an edit of a validly signed file strictly before its
\* sign: line that leaves the sign: line the first one of the file and changes
\* the text before it (read without BOM, with CRLF and CR as LF, up to the
\* terminator of the line before the sign: line), verify_signature answers
\* invalid with a mismatch message that carries the digest of the edited text
\* as expected and the digest of the original text, still on the sign: line,
\* as found.
C2_ContentEditInvalidates ==
    (Tampered /\ last.op = "verify")
        => LET before == LastTouch.before
           IN  (/\ FirstSign(LinesOf(file)) > 0
                /\ SignTail(file) = SignTail(before)
                /\ SignedText(file) # SignedText(before))
               => /\ ~last.valid
                  /\ last.kind = "mismatch"
                  /\ last.expected = <<Digest(SignedText(file))>>
                  /\ last.found = <<Digest(SignedText(before))>>
                  /\ last.found = SignValue(SignTail(file)[1])

\* an edit that changed the signed lines has been verified
C2_Witness ==
    /\ Tampered
    /\ last.op = "verify"
    /\ FirstSign(LinesOf(file)) > 0
    /\ SignTail(file) = SignTail(LastTouch.before)
    /\ SignedText(file) # SignedText(LastTouch.before)
    /\ last.kind = "mismatch"

(***************************************************************************)
(* C3                                                                      *)
(***************************************************************************)

\* C3: sign in place, unsign, sign in place returns the signature that the
\* first sign returned.
C3_UnsignSignRoundTrip ==
    (/\ Len(hist) = 3
     /\ hist[1].op = "sign" /\ hist[2].op = "unsign" /\ hist[3].op = "sign")
        => hist[3].sig = hist[1].sig

(***************************************************************************)
(* C4                                                                      *)
(***************************************************************************)

\* C4: on a file signed in place and not modified since, two further
\* in-place signs return the same signature.
C4_ResignStable ==
    \A i \in 1..(Len(hist) - 2) :
        (hist[i].op = "sign" /\ hist[i + 1].op = "sign" /\ hist[i + 2].op = "sign")
            => hist[i + 1].sig = hist[i + 2].sig

\* three signs in a row, the first of a file whose signature then changed
C4_Witness ==
    /\ Len(hist) = 3
    /\ \A i \in 1..3 : hist[i].op = "sign"
    /\ hist[1].sig # hist[2].sig
    /\ hist[2].sig = hist[3].sig

(***************************************************************************)
(* C5                                                                      *)
(***************************************************************************)

\* C5: a signed version that adds to an unsigned content U nothing but a
\* suffix holding the signature line and the seal-marker line has the
\* canonical bytes of U.
C5_SuffixKeepsCanonical ==
    (/\ Len(hist) = 1
     /\ hist[1].op = "sign"
     /\ ~\E i \in 1..Len(LinesOf(hist[1].before)) :
            IsSignLine(LinesOf(hist[1].before)[i]) \/ IsCloseLine(LinesOf(hist[1].before)[i])
     /\ startswith(file, hist[1].before))
        => canonical_bytes(file) = canonical_bytes(hist[1].before)

(***************************************************************************)
(* C6                                                                      *)
(***************************************************************************)

\* C6: verify_signature answers "no signature" exactly when the file has no
\* sign: line; otherwise it answers valid exactly when the value of the first
\* sign: line equals the signature computed over the canonical bytes, saying
\* sealed or unsealed on a match and giving expected and found on a mismatch.
C6_VerifyVerdict ==
    last.op = "verify"
        => LET ls == LinesOf(file)
               k == FirstSign(ls)
               sealed == \E i \in 1..Len(split(read_text(file), LF)) :
                            IsCloseLine(split(read_text(file), LF)[i])
           IN  /\ (last.kind = "nosig") <=> (k = 0)
               /\ (k = 0) => ~last.valid
               /\ (k > 0) =>
                    /\ last.valid <=> (SignValue(ls[k]) = compute_signature(file))
                    /\ last.valid => /\ last.kind = (IF sealed THEN "sealed" ELSE "unsealed")
                                     /\ last.expected = compute_signature(file)
                    /\ ~last.valid => /\ last.kind = "mismatch"
                                      /\ last.expected = compute_signature(file)
                                      /\ last.found = SignValue(ls[k])

\* a verify that found a signature other than the expected one
C6_Witness ==
    /\ last.op = "verify"
    /\ last.kind = "mismatch"
    /\ last.found # <<>>
    /\ last.found # last.expected

(***************************************************************************)
(* What the properties below say of a parse, in their own words.           *)
(***************************************************************************)

\* the parse has ended and returned a Document
Returned == pc = "done"

\* the parse has ended, with a Document or with an error
Ended == pc \in {"done", "error"}

\* the lines being parsed are those of the file as it now is
ParsedCurrentFile == lines = split(read_text(file), LF)

\* a line that is neither blank nor a comment
Substantive(line) == ~is_blank(line) /\ ~is_comment(line)

\* the number of the first substantive line (0: there is none)
FirstSubstantive(ls) ==
    LET idx == {k \in 1..Len(ls) : Substantive(ls[k])}
    IN  IF idx = {} THEN 0 ELSE Min(idx)

\* the keywords of the body grammar that are recognized as prefixes, and
\* those recognized only as the whole line
PrefixKeywords == {K_title, K_sec, K_seceq, K_para, K_olist, K_img, K_link,
                   K_linktxt, K_opensn, K_endnewsn, K_sign}
ExactKeywords == {K_breakline, K_breakline \o <<":">>, K_code, K_close}

\* a substantive line that matches no keyword of the body grammar
Unrecognized(line) ==
    /\ Substantive(line)
    /\ \A kw \in PrefixKeywords : ~startswith(lower(strip(line)), kw)
    /\ lower(strip(line)) \notin ExactKeywords

\* a sec= or opensn= line that does not have the form id-colon-text
Malformed(line) ==
    \/ startswith(lower(strip(line)), K_seceq) /\ ~re_link(strip(line), 4).matched
    \/ startswith(lower(strip(line)), K_opensn) /\ ~re_link(strip(line), 7).matched

\* the parse got past the header phase
PastHeader ==
    \/ pc \in {"metadata", "body", "list", "code", "done"}
    \/ pc = "error" /\ error.kind # "MissingHeader"

\* the nodes and metadata entries made from line k
MadeFrom(k) ==
    {i \in 1..Len(nodes) : nodes[i].src = k}
        \cup {-i : i \in {j \in 1..Len(metadata) : metadata[j].src = k}}

\* C7: for every document that parses successfully, the parse of the file
\* that in-place signing makes of it returns a Document that is closed and
\* whose signature is the digest recomputed over the signed file.
C7_ParseOfSignedFile ==
    (Returned /\ hist # <<>> /\ ParsedCurrentFile) =>
        /\ is_closed
        /\ signature.some
        /\ signature.val = compute_signature(file)

\* C8 (as stated): a document with a valid header and, after it, a line
\* that matches no keyword returns a Document in lenient mode in which that
\* line made exactly one Unknown node holding the line as it is, and in
\* strict mode ends with an UnknownCommand error that carries such a line.
\* Stated here of documents that have no malformed sec= or opensn= line and
\* no olist: line at all, so that no other failure is involved.
C8_UnknownLineAnywhere ==
    LET h == FirstSubstantive(lines)
        unk == {k \in (h + 1)..Len(lines) : Unrecognized(lines[k])}
        plain == \A k \in 1..Len(lines) :
                     /\ ~Malformed(lines[k])
                     /\ ~startswith(lower(strip(lines[k])), K_olist)
    IN  (Ended /\ h # 0 /\ header_ok(lines[h]) /\ unk # {} /\ plain) =>
            IF mode = "lenient"
            THEN /\ Returned
                 /\ \A k \in unk :
                        /\ Cardinality(MadeFrom(k)) = 1
                        /\ \E i \in 1..Len(nodes) :
                               nodes[i] = Node("Unknown", <<lines[k]>>, k)
            ELSE /\ pc = "error"
                 /\ error.kind = "UnknownCommand"
                 /\ \E k \in unk : error.text = lines[k]

\* C8 (amended): when the body loop classifies a line that matches no
\* keyword, lenient mode appends exactly one Unknown node holding the line
\* as it is and goes on with the next line, and strict mode ends the parse
\* with an UnknownCommand error that carries the line, adding no node.
C8_UnknownLineClassified ==
    [][(pc = "body" /\ has_more /\ Unrecognized(peek_line)) =>
          IF mode = "lenient"
          THEN /\ nodes' = Append(nodes, Node("Unknown", <<peek_line>>, current_line + 1))
               /\ current_line' = current_line + 1
               /\ pc' = "body"
               /\ error' = NoError
          ELSE /\ pc' = "error"
               /\ error' = ValueError("UnknownCommand", peek_line)
               /\ nodes' = nodes]_vars

\* C8 witness: a lenient parse has returned a Document with an Unknown node
\* made from a line that matches no keyword and has surrounding whitespace.
C8_Witness ==
    /\ Returned
    /\ mode = "lenient"
    /\ \E i \in 1..Len(nodes) :
           /\ nodes[i].type = "Unknown"
           /\ Unrecognized(lines[nodes[i].src])
           /\ nodes[i].args = <<lines[nodes[i].src]>>
           /\ strip(lines[nodes[i].src]) # lines[nodes[i].src]

\* C9: in both modes a malformed sec= or opensn= line is swallowed: no
\* error, no node, and exactly that one line consumed.
C9_MalformedSwallowed ==
    [][(pc = "body" /\ has_more /\ Malformed(peek_line)) =>
          /\ pc' = "body"
          /\ error' = NoError
          /\ nodes' = nodes
          /\ current_line' = current_line + 1]_vars

\* C10 (as stated): the parse gets past the header phase iff the first
\* substantive line equals the header literal; otherwise it ends with
\* MissingHeader and no Document; the header line makes no node or
\* metadata entry.
C10_HeaderLiteral ==
    LET h == FirstSubstantive(lines)
    IN  pc \notin {"idle", "header"} =>
            /\ PastHeader <=> (h # 0 /\ lines[h] = HEADER)
            /\ ~PastHeader => (pc = "error" /\ error.kind = "MissingHeader")
            /\ MadeFrom(h) = {}

\* C10 (amended): the parse gets past the header phase iff the first
\* substantive line, with surrounding whitespace trimmed, equals the header
\* literal (case-sensitive); otherwise it ends with MissingHeader and no
\* Document; the header line makes no node or metadata entry.
C10_HeaderTrimmed ==
    LET h == FirstSubstantive(lines)
    IN  pc \notin {"idle", "header"} =>
            /\ PastHeader <=> (h # 0 /\ strip(lines[h]) = HEADER)
            /\ ~PastHeader => (pc = "error" /\ error.kind = "MissingHeader"
                               /\ nodes = <<>> /\ metadata = <<>>)
            /\ MadeFrom(h) = {}

\* C10 witness: a parse has returned a Document with nodes and metadata for
\* input whose header line has whitespace around it and comes after a
\* comment and a blank line.
C10_Witness ==
    LET h == FirstSubstantive(lines)
    IN  /\ Returned
        /\ h > 1
        /\ lines[h] # HEADER
        /\ strip(lines[h]) = HEADER
        /\ nodes # <<>>
        /\ metadata # <<>>

\* the numbers of the nodes of a type
NodesOf(type) == {i \in 1..Len(nodes) : nodes[i].type = type}

\* C11: a strict parse that meets an endnewsn node returns at once: that
\* node is the last, the cursor is just past its line, and whether the
\* Document is closed or signed was settled by the nodes before it; every
\* other parse that returns has read the input to its end.
C11_StrictStopsAtEndNewSN ==
    Returned =>
        IF mode = "strict" /\ NodesOf("EndNewSN") # {}
        THEN LET i == Min(NodesOf("EndNewSN"))
             IN  /\ i = Len(nodes)
                 /\ current_line = nodes[i].src
                 /\ error = NoError
                 /\ is_closed <=> (NodesOf("Close") # {})
                 /\ signature.some <=> (NodesOf("Signature") # {})
                 /\ \A k \in (current_line + 1)..Len(lines) : MadeFrom(k) = {}
        ELSE current_line = Len(lines)

\* C11 witness: a strict parse has returned after an endnewsn node that is
\* followed by a line matching no keyword, or by a sign: line.
C11_Witness ==
    /\ Returned
    /\ mode = "strict"
    /\ NodesOf("EndNewSN") # {}
    /\ \E k \in (current_line + 1)..Len(lines) :
           Unrecognized(lines[k]) \/ startswith(lower(strip(lines[k])), K_sign)

\* C12: in both modes, when the body loop classifies a line that begins
\* with olist: and is not, trimmed and case-folded, exactly olist:bullet or
\* olist:numbers, the parse ends with InvalidListType.
C12_InvalidListType ==
    [][(/\ pc = "body" /\ has_more /\ Substantive(peek_line)
        /\ startswith(lower(strip(peek_line)), K_olist)
        /\ lower(strip(peek_line)) \notin {K_olist \o K_bullet, K_olist \o K_numbers})
       => (pc' = "error" /\ error'.kind = "InvalidListType")]_vars

\* how many of the lines ls pass a test (the lines of a file are LinesOf:
\* the byte-order mark is no part of the first line)
CountLines(ls, Test(_)) == Cardinality({i \in 1..Len(ls) : Test(ls[i])})

IsBlankLine(l) == strip(l) = <<>>

NotSignNorClose(l) == ~IsSignLine(l) /\ ~IsCloseLine(l)

\* ls without its trailing blank lines
TrimTrailingBlank(ls) ==
    SubSeq(ls, 1, Max({0} \cup {i \in 1..Len(ls) : ~IsBlankLine(ls[i])}))

\* C13: after an in-place sign the file has exactly one sign: line and
\* exactly one close: line, they are its last two lines in that order, one
\* blank line and no more comes before them, and the lines before that are
\* the lines of the file as it was that are neither sign: nor exact close:
\* lines, in order, without trailing blank lines.
C13_SignedFileShape ==
    (hist # <<>> /\ LastTouch.op = "sign") =>
        LET now == LinesOf(file)
            was == LinesOf(LastTouch.before)
            n == Len(now)
        IN  /\ n >= 3
            /\ CountLines(now, IsSignLine) = 1
            /\ CountLines(now, IsCloseLine) = 1
            /\ IsSignLine(now[n - 1])
            /\ IsCloseLine(now[n])
            /\ IsBlankLine(now[n - 2])
            /\ n > 3 => ~IsBlankLine(now[n - 3])
            /\ SubSeq(now, 1, n - 3) = TrimTrailingBlank(SelectSeq(was, NotSignNorClose))

\* C14: unsign_file returns True exactly when the file had a sign: line or
\* an exact close: line; it then leaves the other lines, in order, without
\* trailing blank lines; when it returns False the bytes of the file are
\* as they were.
C14_UnsignEffect ==
    (hist # <<>> /\ LastTouch.op = "unsign") =>
        LET was == LinesOf(LastTouch.before)
            present == \E i \in 1..Len(was) : ~NotSignNorClose(was[i])
        IN  /\ LastTouch.removed = present
            /\ IF present
               THEN normalize_newlines(strip_bom(file))
                        = join(TrimTrailingBlank(SelectSeq(was, NotSignNorClose)), LF)
               ELSE file = LastTouch.before

\* the normalized content cut before its first sign: line, if it has one
CutAtSign(bytes) ==
    IF FirstSign(LinesOf(bytes)) = 0
    THEN Reterminate(strip_bom(bytes), <<LF>>)
    ELSE SignedText(bytes)

IsMetaLine(l) == startswith(lower(strip(l)), <<"m", "e", "t", "a", ":">>)

\* what a meta: line carries after its keyword, trimmed
MetaValue(l) == strip(SubSeq(strip(l), 6, Len(strip(l))))

\* the number of the first line after the header that is neither blank,
\* comment nor meta: (one past the last line: there is none)
FirstBodyLine(ls) ==
    LET h == FirstSubstantive(ls)
    IN  Min({k \in (h + 1)..Len(ls) : Substantive(ls[k]) /\ ~IsMetaLine(ls[k])}
                \cup {Len(ls) + 1})

\* C16: in every Document returned, the metadata entries are, in order,
\* the meta: lines between the header and the first line that is neither
\* blank, comment nor meta:; each comes before the source line of every
\* node; and that first line is where the first node comes from.
C16_MetadataFirst ==
    Returned =>
        LET h == FirstSubstantive(lines)
            b == FirstBodyLine(lines)
            metas == {k \in (h + 1)..(b - 1) : IsMetaLine(lines[k])}
        IN  /\ Len(metadata) = Cardinality(metas)
            /\ \A j \in 1..Len(metadata) :
                   /\ metadata[j].src \in metas
                   /\ metadata[j] = Node("Meta", <<MetaValue(lines[metadata[j].src])>>,
                                         metadata[j].src)
                   /\ \A j2 \in 1..Len(metadata) :
                          j < j2 => metadata[j].src < metadata[j2].src
                   /\ \A i \in 1..Len(nodes) : metadata[j].src < nodes[i].src
            /\ b <= Len(lines) => (nodes # <<>> /\ nodes[1].src = b)
            /\ \A i \in 1..Len(nodes) : nodes[i].src >= b

\* C16 witness: a Document was returned with two metadata entries that had
\* a blank line and a comment between them, a first node from the line
\* after them, and a meta: line further down that is no metadata entry.
C16_Witness ==
    /\ Returned
    /\ Len(metadata) = 2
    /\ metadata[2].src > metadata[1].src + 2
    /\ nodes # <<>>
    /\ nodes[1].src = FirstBodyLine(lines)
    /\ \E k \in (FirstBodyLine(lines) + 1)..Len(lines) : IsMetaLine(lines[k])

\* the pieces of a text that has escaped braces, plain characters and bold
\* directives and nothing else
PlainOrBold == { <<"a", "<">>, <<"{", "{">>, <<"}", "}">>, <<"{", "b", ":", "X", "}">> }

RECURSIVE MadeOf(_)
MadeOf(n) ==
    IF n = 0 THEN {<<>>}
    ELSE LET P == MadeOf(n - 1) IN P \cup {p \o c : p \in P, c \in PlainOrBold}

\* such a text read from left to right: {{ is a literal {, }} is a literal
\* }, {b: up to the next } is a bold span, any other character is itself,
\* HTML-escaped
RECURSIVE ReadLeftToRight(_)
ReadLeftToRight(t) ==
    IF t = <<>> THEN <<>>
    ELSE IF startswith(t, <<"{", "{">>) THEN <<"{">> \o ReadLeftToRight(from(t, 2))
    ELSE IF startswith(t, <<"}", "}">>) THEN <<"}">> \o ReadLeftToRight(from(t, 2))
    ELSE IF startswith(lower(t), D_b) /\ find(t, "}", 4) # 0
    THEN T_strong[1] \o html_escape(SubSeq(t, 4, find(t, "}", 4) - 1)) \o T_strong[2]
             \o ReadLeftToRight(from(t, find(t, "}", 4)))
    ELSE html_escape_char(t[1]) \o ReadLeftToRight(Tail(t))

C18_ListEndsAtCommand ==
    [][(pc = "list" /\ has_more /\ ~is_blank(peek_line)) =>
          IF is_comment(peek_line)
          THEN /\ pc' = "list"
               /\ current_line' = current_line + 1
               /\ acc' = acc
               /\ nodes' = nodes
          ELSE IF Unrecognized(peek_line)
          THEN /\ pc' = "list"
               /\ current_line' = current_line + 1
               /\ acc' = [acc EXCEPT !.parts = Append(@, strip(peek_line))]
               /\ nodes' = nodes
          ELSE /\ pc' = "body"
               /\ current_line' = current_line
               /\ nodes' = Append(nodes, Node("List", acc.parts, acc.src))]_vars

\* the number of the line that ends the code block opened at line s: the
\* first line after s that is, trimmed and case-folded, endcode: (one past
\* the last line: there is none)
CodeEnd(s) ==
    Min({k \in (s + 1)..Len(lines) :
            lower(strip(lines[k])) = <<"e", "n", "d", "c", "o", "d", "e", ":">>}
        \cup {Len(lines) + 1})

\* C20: the payload of every code block node is the lines that follow its
\* code: line, as they are, up to the first endcode: line or the end of the
\* input; none of those lines, nor the endcode: line, makes a node; and
\* the parse that meets the end of the input inside a block returns.
C20_CodeBlockVerbatim ==
    /\ \A i \in NodesOf("CodeBlock") :
           LET s == nodes[i].src
               e == CodeEnd(s)
           IN  /\ lower(strip(lines[s])) = K_code
               /\ nodes[i].args = <<join(SubSeq(lines, s + 1, e - 1), LF)>>
               /\ \A k \in (s + 1)..e : MadeFrom(k) = {}
               /\ current_line >= Min({e, Len(lines)})
    /\ pc = "code" => /\ error = NoError
                      /\ acc.parts = SubSeq(lines, acc.src + 1, current_line)
                      /\ current_line < CodeEnd(acc.src)

\* C20 witness: a Document was returned with a code block that was ended by
\* an endcode: line with whitespace around it and holds, as they are, a
\* command line with whitespace around it, a blank line and a comment.
C20_Witness ==
    /\ Returned
    /\ \E i \in NodesOf("CodeBlock") :
           LET s == nodes[i].src
               e == CodeEnd(s)
           IN  /\ e <= Len(lines)
               /\ lines[e] # strip(lines[e])
               /\ \E k \in (s + 1)..(e - 1) : is_blank(lines[k])
               /\ \E k \in (s + 1)..(e - 1) : is_comment(lines[k])
               /\ \E k \in (s + 1)..(e - 1) :
                      Substantive(lines[k]) /\ ~Unrecognized(lines[k])
                          /\ lines[k] # strip(lines[k])

\* what verify_signature returns for a content, as last records it
Verdict(content) ==
    LET r == verify_signature(content)
    IN  [NoCall EXCEPT !.op = "verify", !.valid = r.valid, !.kind = r.kind,
                       !.expected = r.expected, !.found = r.found]

\* C19: whatever another process writes meanwhile, the signature that a
\* sign call writes is that of the content whose lines it writes back, and
\* what a verify call returns is what one of the contents it read gives.
C19_OneSnapshot ==
    /\ (call.op = "sign" /\ call.step = 0) =>
           LastTouch.sig = compute_signature(LastTouch.before)
    /\ (call.op = "verify" /\ call.step = 0) =>
           \E k \in 1..Len(call.reads) : last = Verdict(call.reads[k])

\* the places of the tags in a result: every < is the start of one, the
\* text itself being HTML-escaped
TagStarts(r) == {i \in 1..Len(r) : r[i] = "<"}

IsClosingTag(r, i) == i < Len(r) /\ r[i + 1] = "/"

\* C21: directives do not nest: in what every pass leaves, the tags come
\* as an opening tag, its closing tag, an opening tag, its closing tag and
\* so on, so that no text captured by a span holds formatting markup.
C21_NoMarkupInsideSpan ==
    \A i \in TagStarts(inline.result) :
        IsClosingTag(inline.result, i)
            <=> (Cardinality({j \in TagStarts(inline.result) : j < i}) % 2 = 1)

(***************************************************************************)
(* C22                                                                     *)
(***************************************************************************)

\* the file as call number i of the history left it
After(i) == IF i = Len(hist) THEN file ELSE hist[i + 1].before

\* C22: whatever the file held, once it has been signed in place twice in
\* a row verify_signature reports it valid and sealed, and a third in-place
\* sign in a row leaves the bytes of the file as they were.
C22_SignTwiceSettles ==
    \A i \in 2..Len(hist) :
        (hist[i - 1].op = "sign" /\ hist[i].op = "sign") =>
            /\ verify_signature(After(i)).valid
            /\ verify_signature(After(i)).kind = "sealed"
            /\ (i < Len(hist) /\ hist[i + 1].op = "sign") => After(i + 1) = After(i)

(***************************************************************************)
(* C26                                                                     *)
(***************************************************************************)

\* C26: after any unsign_file call the file has no sign: line and no exact
\* close: line, and an unsign_file call that follows it at once returns
\* False and leaves the bytes of the file as they were.
C26_UnsignIdempotent ==
    \A i \in 1..Len(hist) :
        hist[i].op = "unsign" =>
            /\ extract_signature(After(i)) = None
            /\ ~has_close_marker(After(i))
            /\ (i < Len(hist) /\ hist[i + 1].op = "unsign") =>
                   /\ ~hist[i + 1].removed
                   /\ After(i + 1) = After(i)

(***************************************************************************)
(* C23                                                                     *)
(***************************************************************************)

\* C23: an edit of what follows the first sign: line of a file leaves the
\* verdict of verify_signature, valid or not, as it was: what comes after
\* that line has no part in it.
C23_TailDoesNotMatter ==
    \A i \in 1..Len(hist) :
        hist[i].op = "edit" =>
            verify_signature(After(i)).valid = verify_signature(hist[i].before).valid

\* a file signed in place, found valid and sealed, then added to after its
\* close: line, and still found valid
C23_Witness ==
    /\ Len(hist) = 2
    /\ hist[1].op = "sign"
    /\ hist[2].op = "edit"
    /\ verify_signature(hist[2].before).kind = "sealed"
    /\ Len(file) > Len(hist[2].before)
    /\ SubSeq(file, 1, Len(hist[2].before)) = hist[2].before
    /\ verify_signature(file).valid

(***************************************************************************)
(* C24                                                                     *)
(***************************************************************************)

InLoop == pc \in {"header", "metadata", "body", "list", "code"}

\* C24: every turn of the header, metadata, body, list and code loops
\* moves the cursor forward by at least one line, leaves its loop or
\* raises; the cursor never moves back nor past the number of lines; and
\* every parse that has been entered returns or raises.
C24_ParseTerminates ==
    /\ [][InLoop =>
            /\ current_line' >= current_line
            /\ current_line' <= Len(lines')
            /\ current_line' > current_line \/ pc' # pc \/ error'.kind # ""]_vars
    /\ [](current_line <= Len(lines))
    /\ (InLoop ~> (pc \in {"done", "error"}))

\* a strict parse that ended with the cursor at the last line, and a
\* lenient parse of a file whose last line is a malformed sec= line, which
\* consumed all lines
C24_Witness ==
    /\ pc \in {"done", "error"}
    /\ Len(lines) >= 3
    /\ \/ mode = "strict" /\ error.kind # "" /\ current_line = Len(lines) - 1
       \/ /\ mode = "lenient" /\ pc = "done" /\ current_line = Len(lines)
          /\ Malformed(lines[Len(lines)])

(***************************************************************************)
(* C25                                                                     *)
(***************************************************************************)

IsEndNewSNLine(l) == startswith(lower(strip(l)), K_endnewsn)

\* both parsers have ended on the same content
BothParsed == pc \in {"done", "error"} /\ last # NoCall

\* the outcome of the parser of mode m
Outcome(m) == IF last.mode = m THEN last ELSE Parsed

\* C25: when the strict parser returns a Document for a content that has
\* no endnewsn: line, the lenient parser returns one for it too, with the
\* same metadata, nodes, is_closed and signature.
C25_LenientAgreesWithStrict ==
    (/\ BothParsed
     /\ Outcome("strict").returned
     /\ \A i \in 1..Len(lines) : ~IsEndNewSNLine(lines[i])) =>
        /\ Outcome("lenient").returned
        /\ Outcome("lenient").metadata = Outcome("strict").metadata
        /\ Outcome("lenient").nodes = Outcome("strict").nodes
        /\ Outcome("lenient").is_closed = Outcome("strict").is_closed
        /\ Outcome("lenient").signature = Outcome("strict").signature

\* the strict parser, then the lenient one, returned a Document with a
\* metadata entry and several nodes for a content without endnewsn: line
C25_Witness ==
    /\ BothParsed
    /\ mode = "lenient"
    /\ Outcome("strict").returned
    /\ \A i \in 1..Len(lines) : ~IsEndNewSNLine(lines[i])
    /\ Len(metadata) >= 1
    /\ Len(nodes) >= 2

====
